---- MODULE Spec2Model ----
(***************************************************************************)
(* A model of the Monkey parser (src/src/parser.rs): a recursive-descent   *)
(* Pratt parser over a two-token lookahead window.  The recursion of the   *)
(* Rust code is modelled by an explicit call stack of frames; every action *)
(* is one straight-line stretch of one function, from its entry or from    *)
(* the return of a callee up to its next call, loop head or return.        *)
(***************************************************************************)
EXTENDS Integers, Sequences, FiniteSets, TLC

VARIABLES
    parser,     \* struct Parser: lexer, errors, cur_token, peek_token
    stack,      \* the call stack, innermost frame last
    ret,        \* <<r>> when a callee has just returned r, else <<>>
    log,        \* history: one record per completed iteration of this call
    calls       \* number of calls of parse_program so far

vars == <<parser, stack, ret, log, calls>>

----------------------------------------------------------------------------
(* Tokens.  Ident carries a name and Int carries the literal's text (its   *)
(* decimal digits); all other tags carry no payload.                       *)

Tok(tag) == [tag |-> tag, name |-> "", digits |-> <<>>]
make_ident(n) == [tag |-> "Ident", name |-> n, digits |-> <<>>]
make_int(ds) == [tag |-> "Int", name |-> "", digits |-> ds]

EOF == Tok("EOF")

----------------------------------------------------------------------------
(* Precedence levels, in the order of the enum.                            *)

Lowest      == 1
Equals      == 2
LessGreater == 3
Sum         == 4
Product     == 5
Prefix      == 6
Call        == 7

\* the table with the arms of Sum and Product exchanged
Precedence_for_token_swapped(token) ==
    CASE token.tag \in {"Eq", "NotEq"}       -> Equals
      [] token.tag \in {"Gt", "Lt"}          -> LessGreater
      [] token.tag \in {"Plus", "Minus"}     -> Product
      [] token.tag \in {"Slash", "Asterisk"} -> Sum
      [] OTHER                               -> Lowest

Precedence_for_token(token) ==
    CASE token.tag \in {"Eq", "NotEq"}       -> Equals
      [] token.tag \in {"Gt", "Lt"}          -> LessGreater
      [] token.tag \in {"Plus", "Minus"}     -> Sum
      [] token.tag \in {"Slash", "Asterisk"} -> Product
      [] OTHER                               -> Lowest

----------------------------------------------------------------------------
(* Results and diagnostics.                                                *)

Ok(v)  == [ok |-> TRUE, val |-> v]
Err(e) == [ok |-> FALSE, val |-> e]

Unit == [kind |-> "Unit"]

ExpectedToken(expected, saw) ==
    [kind |-> "ExpectedToken", expected |-> expected, saw |-> saw]
ExpectedIdent(saw)        == [kind |-> "ExpectedIdent", saw |-> saw]
IntegerParseFailure(text) == [kind |-> "IntegerParseFailure", text |-> text]
UnhandledPrefix(saw)      == [kind |-> "UnhandledPrefix", saw |-> saw]

----------------------------------------------------------------------------
(* AST nodes.                                                              *)

Identifier(n)     == [kind |-> "Identifier", name |-> n]
IntegerLiteral(v) == [kind |-> "IntegerLiteral", value |-> v]
Boolean(b)        == [kind |-> "Boolean", value |-> b]
Nothing           == [kind |-> "Nothing"]
PrefixExpr(op, right) ==
    [kind |-> "Prefix", operator |-> op, right |-> right]
InfixExpr(op, left, right) ==
    [kind |-> "Infix", operator |-> op, left |-> left, right |-> right]
\* alternative is an Option: <<>> for None, <<block>> for Some(block)
IfExpr(condition, consequence, alternative) ==
    [kind |-> "If", condition |-> condition, consequence |-> consequence,
     alternative |-> alternative]

LetStmt(token, name, value) ==
    [kind |-> "Let", token |-> token, name |-> name, value |-> value]
ReturnStmt(token, expr) == [kind |-> "Return", token |-> token, expr |-> expr]
ExprStmt(token, expr) == [kind |-> "Expression", token |-> token, expr |-> expr]
BlockStatement(token, stmts) == [token |-> token, statements |-> stmts]

----------------------------------------------------------------------------
(* The lexer, seen through its pull interface: the tokens of the input in  *)
(* order, then EOF for ever.  pulls counts the pulls made so far; it is    *)
(* history kept for the properties and stops counting at MaxPulls.         *)

MaxPulls == 24

Lexer_new(input) == [input |-> input, position |-> 1, pulls |-> 0]

\* one more pull on the counter
Pulled(lx) == IF lx.pulls < MaxPulls THEN lx.pulls + 1 ELSE lx.pulls

Lexer_next_token(lx) ==
    IF lx.position <= Len(lx.input)
    THEN [token |-> lx.input[lx.position],
          lexer |-> [lx EXCEPT !.position = lx.position + 1,
                               !.pulls = Pulled(lx)]]
    ELSE [token |-> EOF, lexer |-> [lx EXCEPT !.pulls = Pulled(lx)]]

----------------------------------------------------------------------------
(* The lookahead window.                                                   *)

Parser_new(lx) ==
    LET r1 == Lexer_next_token(lx)
        r2 == Lexer_next_token(r1.lexer)
    IN [lexer |-> r2.lexer, errors |-> <<>>,
        cur_token |-> r1.token, peek_token |-> r2.token]

\* next_token pulling twice, so that one token never enters the window
next_token_skipping(p) ==
    LET r1 == Lexer_next_token(p.lexer)
        r2 == Lexer_next_token(r1.lexer)
    IN [p EXCEPT !.cur_token = p.peek_token,
                 !.peek_token = r2.token,
                 !.lexer = r2.lexer]

next_token(p) ==
    LET r == Lexer_next_token(p.lexer)
    IN [p EXCEPT !.cur_token = p.peek_token,
                 !.peek_token = r.token,
                 !.lexer = r.lexer]

\* the match shared by current_token_is and peek_token_is
token_is(tok, have) ==
    IF tok.tag = "Ident" /\ have.tag = "Ident" THEN TRUE
    ELSE IF tok.tag = "Int" /\ have.tag = "Int" THEN TRUE
    ELSE tok = have

current_token_is(p, tok) == token_is(tok, p.cur_token)
peek_token_is(p, tok)    == token_is(tok, p.peek_token)

\* cur_precedence one level down: the right operand takes in an operator of
\* the same level
cur_precedence_below(p) == Precedence_for_token(p.cur_token) - 1

cur_precedence(p)  == Precedence_for_token(p.cur_token)
peek_precedence(p) == Precedence_for_token(p.peek_token)

\* expect_peek advancing whether or not the token matches
expect_peek_consuming(p, expected) ==
    IF peek_token_is(p, expected)
    THEN [p |-> next_token(p), res |-> Ok(Unit)]
    ELSE [p |-> next_token(p),
          res |-> Err(ExpectedToken(expected, p.peek_token))]

expect_peek(p, expected) ==
    IF peek_token_is(p, expected)
    THEN [p |-> next_token(p), res |-> Ok(Unit)]
    ELSE [p |-> p, res |-> Err(ExpectedToken(expected, p.peek_token))]

\* expect_ident advancing whether or not an identifier is next
expect_ident_consuming(p) ==
    IF p.peek_token.tag = "Ident"
    THEN [p |-> next_token(p), res |-> Ok(Identifier(p.peek_token.name))]
    ELSE [p |-> next_token(p), res |-> Err(ExpectedIdent(p.peek_token))]

\* expect_ident taking the name from the current token
expect_ident_current(p) ==
    IF p.peek_token.tag = "Ident"
    THEN [p |-> next_token(p), res |-> Ok(Identifier(p.cur_token.name))]
    ELSE [p |-> p, res |-> Err(ExpectedIdent(p.peek_token))]

expect_ident(p) ==
    IF p.peek_token.tag = "Ident"
    THEN [p |-> next_token(p), res |-> Ok(Identifier(p.peek_token.name))]
    ELSE [p |-> p, res |-> Err(ExpectedIdent(p.peek_token))]

----------------------------------------------------------------------------
(* str::parse::<i64> on the text of an integer literal.  The text is a     *)
(* sequence of decimal digits; the value is kept in decimal, without       *)
(* leading zeros, because i64 is wider than the model checker's integers.  *)

I64_MAX == <<9,2,2,3,3,7,2,0,3,6,8,5,4,7,7,5,8,0,7>>

RECURSIVE StripZeros(_)
StripZeros(ds) ==
    IF Len(ds) > 1 /\ ds[1] = 0 THEN StripZeros(Tail(ds)) ELSE ds

RECURSIVE DigitsLeq(_, _)
\* lexicographic <= on digit sequences of equal length
DigitsLeq(a, b) ==
    IF a = <<>> THEN TRUE
    ELSE IF a[1] < b[1] THEN TRUE
    ELSE IF a[1] > b[1] THEN FALSE
    ELSE DigitsLeq(Tail(a), Tail(b))

FitsI64(ds) ==
    \/ Len(ds) < Len(I64_MAX)
    \/ Len(ds) = Len(I64_MAX) /\ DigitsLeq(ds, I64_MAX)

parse_int_expression(value_str) ==
    IF value_str /= <<>> /\ FitsI64(StripZeros(value_str))
    THEN Ok(IntegerLiteral(StripZeros(value_str)))
    ELSE Err(IntegerParseFailure(value_str))

----------------------------------------------------------------------------
(* The call stack.                                                         *)

Top      == stack[Len(stack)]
Running(fn, pc) == stack /= <<>> /\ Top.fn = fn /\ Top.pc = pc

\* the running function moves on to frame f
Goto(f)     == stack' = [stack EXCEPT ![Len(stack)] = f]
\* the running function, left in frame f, calls a function entering at g
CallFn(f, g) == stack' = Append([stack EXCEPT ![Len(stack)] = f], g)
\* the running function returns r to its caller
Return(r)   == /\ stack' = SubSeq(stack, 1, Len(stack) - 1)
               /\ ret' = <<r>>

Frame(fn)                == [fn |-> fn, pc |-> "entry"]
ExpressionFrame(prec)    ==
    [fn |-> "parse_expression", pc |-> "entry", precedence |-> prec]
InfixFrame(left)         ==
    [fn |-> "parse_infix_expression", pc |-> "entry", left |-> left]

\* no call is in progress
Idle == stack = <<>>
\* the n-th call of parse_program has returned (and no later call is made)
Returned(n) == Idle /\ calls = n

----------------------------------------------------------------------------
(* parse_program: the top-level loop, the only place an error is caught.   *)

ProgramFrame == [fn |-> "parse_program", pc |-> "loop", program |-> <<>>]

Program(stmts) == [statements |-> stmts]

\* push_result with the Err arm dropping the error
push_result_dropping(program, errors, r) ==
    IF r.ok
    THEN [program |-> Append(program, r.val), errors |-> errors]
    ELSE [program |-> program, errors |-> errors]

\* the match on the statement's result: one push, to one of the two lists
push_result(program, errors, r) ==
    IF r.ok
    THEN [program |-> Append(program, r.val), errors |-> errors]
    ELSE [program |-> program, errors |-> Append(errors, r.val)]

\* parse_program advancing once more before it returns
parse_program_advancing ==
    /\ Running("parse_program", "loop")
    /\ IF parser.cur_token /= EOF
       THEN /\ CallFn([fn |-> "parse_program", pc |-> "stmt",
                       program |-> Top.program, start |-> parser.cur_token],
                      Frame("parse_statement"))
            /\ UNCHANGED <<parser, ret>>
       ELSE /\ Return(Ok(Program(Top.program)))
            /\ parser' = next_token(parser)
    /\ UNCHANGED <<log, calls>>

\* loop head: another statement attempt, or return the program
parse_program ==
    /\ Running("parse_program", "loop")
    /\ IF parser.cur_token /= EOF
       THEN /\ CallFn([fn |-> "parse_program", pc |-> "stmt",
                       program |-> Top.program, start |-> parser.cur_token],
                      Frame("parse_statement"))
            /\ UNCHANGED ret
       ELSE Return(Ok(Program(Top.program)))
    /\ UNCHANGED <<parser, log, calls>>

\* the statement attempt is over: record its outcome and advance
parse_program_1 ==
    /\ Running("parse_program", "stmt")
    /\ ret /= <<>>
    /\ LET r == ret[1]
           pushed == push_result(Top.program, parser.errors, r)
       IN /\ parser' = next_token([parser EXCEPT !.errors = pushed.errors])
          /\ Goto([fn |-> "parse_program", pc |-> "loop",
                   program |-> pushed.program])
          /\ log' = Append(log, [start |-> Top.start, ok |-> r.ok,
                                 item |-> r.val])
    /\ ret' = <<>>
    /\ UNCHANGED calls

\* parse_statement returns what the function it dispatches to returns
parse_statement ==
    /\ Running("parse_statement", "entry")
    /\ Goto(CASE parser.cur_token = Tok("Let") -> Frame("parse_let_statement")
              [] parser.cur_token = Tok("Return") ->
                     Frame("parse_return_statement")
              [] OTHER -> Frame("parse_expression_statement"))
    /\ UNCHANGED <<parser, ret, log, calls>>

----------------------------------------------------------------------------
(* Statements.                                                             *)

parse_let_statement ==
    /\ Running("parse_let_statement", "entry")
    /\ LET token == parser.cur_token
           i == expect_ident(parser)
           e == expect_peek(i.p, Tok("Assign"))
       IN IF ~i.res.ok
          THEN /\ parser' = i.p
               /\ Return(i.res)
          ELSE IF ~e.res.ok
          THEN /\ parser' = e.p
               /\ Return(e.res)
          ELSE /\ parser' = next_token(e.p)
               /\ CallFn([fn |-> "parse_let_statement", pc |-> "value",
                          token |-> token, name |-> i.res.val],
                         ExpressionFrame(Lowest))
               /\ UNCHANGED ret
    /\ UNCHANGED <<log, calls>>

\* parse_let_statement advancing whether or not a `;` is next
parse_let_statement_1_advancing ==
    /\ Running("parse_let_statement", "value")
    /\ ret /= <<>>
    /\ LET r == ret[1]
       IN IF ~r.ok
          THEN /\ Return(r)
               /\ UNCHANGED parser
          ELSE /\ parser' = next_token(parser)
               /\ Return(Ok(LetStmt(Top.token, Top.name, r.val)))
    /\ UNCHANGED <<log, calls>>

parse_let_statement_1 ==
    /\ Running("parse_let_statement", "value")
    /\ ret /= <<>>
    /\ LET r == ret[1]
       IN IF ~r.ok
          THEN /\ Return(r)
               /\ UNCHANGED parser
          ELSE /\ parser' = IF peek_token_is(parser, Tok("Semicolon"))
                            THEN next_token(parser) ELSE parser
               /\ Return(Ok(LetStmt(Top.token, Top.name, r.val)))
    /\ UNCHANGED <<log, calls>>

parse_return_statement ==
    /\ Running("parse_return_statement", "entry")
    /\ parser' = next_token(parser)
    /\ Goto([fn |-> "parse_return_statement", pc |-> "test",
             stmt |-> ReturnStmt(parser.cur_token, Nothing)])
    /\ UNCHANGED <<ret, log, calls>>

\* the skip loop testing the next token instead of the current one
parse_return_statement_1_peek ==
    /\ Running("parse_return_statement", "test")
    /\ IF ~peek_token_is(parser, Tok("Semicolon"))
       THEN /\ Goto([Top EXCEPT !.pc = "advance"])
            /\ UNCHANGED ret
       ELSE Return(Ok(Top.stmt))
    /\ UNCHANGED <<parser, log, calls>>

\* the condition of the skip loop
parse_return_statement_1 ==
    /\ Running("parse_return_statement", "test")
    /\ IF ~current_token_is(parser, Tok("Semicolon"))
       THEN /\ Goto([Top EXCEPT !.pc = "advance"])
            /\ UNCHANGED ret
       ELSE Return(Ok(Top.stmt))
    /\ UNCHANGED <<parser, log, calls>>

\* the body of the skip loop
parse_return_statement_2 ==
    /\ Running("parse_return_statement", "advance")
    /\ parser' = next_token(parser)
    /\ Goto([Top EXCEPT !.pc = "test"])
    /\ UNCHANGED <<ret, log, calls>>

parse_expression_statement ==
    /\ Running("parse_expression_statement", "entry")
    /\ CallFn([fn |-> "parse_expression_statement", pc |-> "expr"],
              ExpressionFrame(Lowest))
    /\ UNCHANGED <<parser, ret, log, calls>>

parse_expression_statement_1 ==
    /\ Running("parse_expression_statement", "expr")
    /\ ret /= <<>>
    /\ LET r == ret[1]
       IN IF ~r.ok
          THEN /\ Return(r)
               /\ UNCHANGED parser
          ELSE /\ parser' = IF peek_token_is(parser, Tok("Semicolon"))
                            THEN next_token(parser) ELSE parser
               /\ Return(Ok(ExprStmt(parser.cur_token, r.val)))
    /\ UNCHANGED <<log, calls>>

----------------------------------------------------------------------------
(* Expressions.                                                            *)

parse_boolean_expression(is_true) == Ok(Boolean(is_true))

\* Result::and with the error of its argument reported first
and_argument_first(a, b) == IF ~b.ok THEN b ELSE IF a.ok THEN b ELSE a

\* Result::and
and(a, b) == IF a.ok THEN b ELSE a

\* the eight tokens of the infix arm of parse_expression's loop
InfixArm == {"Plus", "Minus", "Asterisk", "Slash", "Gt", "Lt", "Eq", "NotEq"}

\* the condition of the loop with <= for <
LoopCondition_inclusive(p, precedence) ==
    /\ ~peek_token_is(p, Tok("Semicolon"))
    /\ precedence <= peek_precedence(p)

\* the condition of parse_expression's loop
LoopCondition(p, precedence) ==
    /\ ~peek_token_is(p, Tok("Semicolon"))
    /\ precedence < peek_precedence(p)

\* the default arm of the prefix dispatch, reporting the next token instead
unhandled_prefix_peek(p) == Err(UnhandledPrefix(p.peek_token))

\* the default arm of the prefix dispatch
unhandled_prefix(p) == Err(UnhandledPrefix(p.cur_token))

\* the prefix dispatch on the current token
parse_expression ==
    /\ Running("parse_expression", "entry")
    /\ LET cur == parser.cur_token
           loop(left) == [fn |-> "parse_expression", pc |-> "loop",
                          precedence |-> Top.precedence, left |-> left]
           call(g) == CallFn([Top EXCEPT !.pc = "prefix"], g)
           int == parse_int_expression(cur.digits)
       IN CASE cur.tag = "Ident" ->
                 Goto(loop(Identifier(cur.name))) /\ UNCHANGED ret
            [] cur.tag = "Int" ->
                 IF int.ok THEN Goto(loop(int.val)) /\ UNCHANGED ret
                 ELSE Return(int)
            [] cur.tag \in {"Bang", "Minus", "Plus"} ->
                 call(Frame("parse_prefix_expression")) /\ UNCHANGED ret
            [] cur.tag = "True" ->
                 Goto(loop(parse_boolean_expression(TRUE).val))
                 /\ UNCHANGED ret
            [] cur.tag = "False" ->
                 Goto(loop(parse_boolean_expression(FALSE).val))
                 /\ UNCHANGED ret
            [] cur.tag = "LParen" ->
                 call(Frame("parse_grouped_expression")) /\ UNCHANGED ret
            [] cur.tag = "If" ->
                 call(Frame("parse_if_expression")) /\ UNCHANGED ret
            [] OTHER -> Return(unhandled_prefix(parser))
    /\ UNCHANGED <<parser, log, calls>>

\* the ? on the result of a prefix, grouped or if parse
parse_expression_1 ==
    /\ Running("parse_expression", "prefix")
    /\ ret /= <<>>
    /\ LET r == ret[1]
       IN IF ~r.ok THEN Return(r)
          ELSE /\ Goto([fn |-> "parse_expression", pc |-> "loop",
                        precedence |-> Top.precedence, left |-> r.val])
               /\ ret' = <<>>
    /\ UNCHANGED <<parser, log, calls>>

\* one test of the infix loop
parse_expression_2 ==
    /\ Running("parse_expression", "loop")
    /\ IF LoopCondition(parser, Top.precedence)
       THEN IF parser.peek_token.tag \in InfixArm
            THEN /\ parser' = next_token(parser)
                 /\ CallFn([Top EXCEPT !.pc = "infix"], InfixFrame(Top.left))
                 /\ UNCHANGED ret
            ELSE /\ Return(Ok(Top.left))
                 /\ UNCHANGED parser
       ELSE /\ Return(Ok(Top.left))
            /\ UNCHANGED parser
    /\ UNCHANGED <<log, calls>>

\* the ? on the result of parse_infix_expression
parse_expression_3 ==
    /\ Running("parse_expression", "infix")
    /\ ret /= <<>>
    /\ LET r == ret[1]
       IN IF ~r.ok THEN Return(r)
          ELSE /\ Goto([Top EXCEPT !.pc = "loop", !.left = r.val])
               /\ ret' = <<>>
    /\ UNCHANGED <<parser, log, calls>>

\* parse_prefix_expression parsing its operand at Lowest
parse_prefix_expression_lowest ==
    /\ Running("parse_prefix_expression", "entry")
    /\ parser' = next_token(parser)
    /\ CallFn([fn |-> "parse_prefix_expression", pc |-> "right",
               operator |-> parser.cur_token],
              ExpressionFrame(Lowest))
    /\ UNCHANGED <<ret, log, calls>>

parse_prefix_expression ==
    /\ Running("parse_prefix_expression", "entry")
    /\ parser' = next_token(parser)
    /\ CallFn([fn |-> "parse_prefix_expression", pc |-> "right",
               operator |-> parser.cur_token],
              ExpressionFrame(Prefix))
    /\ UNCHANGED <<ret, log, calls>>

parse_prefix_expression_1 ==
    /\ Running("parse_prefix_expression", "right")
    /\ ret /= <<>>
    /\ LET r == ret[1]
       IN IF ~r.ok THEN Return(r)
          ELSE Return(Ok(PrefixExpr(Top.operator, r.val)))
    /\ UNCHANGED <<parser, log, calls>>

parse_infix_expression ==
    /\ Running("parse_infix_expression", "entry")
    /\ parser' = next_token(parser)
    /\ CallFn([fn |-> "parse_infix_expression", pc |-> "right",
               left |-> Top.left, operator |-> parser.cur_token],
              ExpressionFrame(cur_precedence(parser)))
    /\ UNCHANGED <<ret, log, calls>>

parse_infix_expression_1 ==
    /\ Running("parse_infix_expression", "right")
    /\ ret /= <<>>
    /\ LET r == ret[1]
       IN IF ~r.ok THEN Return(r)
          ELSE Return(Ok(InfixExpr(Top.operator, Top.left, r.val)))
    /\ UNCHANGED <<parser, log, calls>>

\* parse_grouped_expression parsing the inner expression at Prefix
parse_grouped_expression_tight ==
    /\ Running("parse_grouped_expression", "entry")
    /\ parser' = next_token(parser)
    /\ CallFn([fn |-> "parse_grouped_expression", pc |-> "inner"],
              ExpressionFrame(Prefix))
    /\ UNCHANGED <<ret, log, calls>>

parse_grouped_expression ==
    /\ Running("parse_grouped_expression", "entry")
    /\ parser' = next_token(parser)
    /\ CallFn([fn |-> "parse_grouped_expression", pc |-> "inner"],
              ExpressionFrame(Lowest))
    /\ UNCHANGED <<ret, log, calls>>

parse_grouped_expression_1 ==
    /\ Running("parse_grouped_expression", "inner")
    /\ ret /= <<>>
    /\ LET expr == ret[1]
           e == expect_peek(parser, Tok("RParen"))
       IN /\ parser' = e.p
          /\ Return(and(e.res, expr))
    /\ UNCHANGED <<log, calls>>

----------------------------------------------------------------------------
(* Blocks and if.                                                          *)

parse_block_statement ==
    /\ Running("parse_block_statement", "entry")
    /\ parser' = next_token(parser)
    /\ Goto([fn |-> "parse_block_statement", pc |-> "loop",
             block |-> BlockStatement(parser.cur_token, <<>>)])
    /\ UNCHANGED <<ret, log, calls>>

\* parse_block_statement reporting the `}` that end-of-input stands for
parse_block_statement_1_strict ==
    /\ Running("parse_block_statement", "loop")
    /\ IF /\ ~current_token_is(parser, Tok("RBrace"))
          /\ ~current_token_is(parser, EOF)
       THEN /\ CallFn([fn |-> "parse_block_statement", pc |-> "stmt",
                       block |-> Top.block, start |-> parser.cur_token],
                      Frame("parse_statement"))
            /\ UNCHANGED ret
       ELSE IF current_token_is(parser, EOF)
            THEN Return(Err(ExpectedToken(Tok("RBrace"), parser.cur_token)))
            ELSE Return(Ok(Top.block))
    /\ UNCHANGED <<parser, log, calls>>

parse_block_statement_1 ==
    /\ Running("parse_block_statement", "loop")
    /\ IF /\ ~current_token_is(parser, Tok("RBrace"))
          /\ ~current_token_is(parser, EOF)
       THEN /\ CallFn([fn |-> "parse_block_statement", pc |-> "stmt",
                       block |-> Top.block, start |-> parser.cur_token],
                      Frame("parse_statement"))
            /\ UNCHANGED ret
       ELSE Return(Ok(Top.block))
    /\ UNCHANGED <<parser, log, calls>>

\* parse_block_statement dropping a failed statement and going on
parse_block_statement_2_recovering ==
    /\ Running("parse_block_statement", "stmt")
    /\ ret /= <<>>
    /\ LET r == ret[1]
       IN /\ parser' = next_token(parser)
          /\ Goto([fn |-> "parse_block_statement", pc |-> "loop",
                   block |-> IF r.ok
                             THEN [Top.block EXCEPT
                                     !.statements = Append(@, r.val)]
                             ELSE Top.block])
          /\ ret' = <<>>
    /\ UNCHANGED <<log, calls>>

parse_block_statement_2 ==
    /\ Running("parse_block_statement", "stmt")
    /\ ret /= <<>>
    /\ LET r == ret[1]
       IN IF ~r.ok
          THEN /\ Return(r)
               /\ UNCHANGED parser
          ELSE /\ parser' = next_token(parser)
               /\ Goto([fn |-> "parse_block_statement", pc |-> "loop",
                        block |-> [Top.block EXCEPT
                                     !.statements = Append(@, r.val)]])
               /\ ret' = <<>>
    /\ UNCHANGED <<log, calls>>

parse_if_expression ==
    /\ Running("parse_if_expression", "entry")
    /\ LET e == expect_peek(parser, Tok("LParen"))
       IN /\ parser' = e.p
          /\ IF ~e.res.ok THEN Return(e.res)
             ELSE /\ CallFn([fn |-> "parse_if_expression",
                             pc |-> "condition"],
                            ExpressionFrame(Lowest))
                  /\ UNCHANGED ret
    /\ UNCHANGED <<log, calls>>

parse_if_expression_1 ==
    /\ Running("parse_if_expression", "condition")
    /\ ret /= <<>>
    /\ LET r == ret[1]
           e == expect_peek(parser, Tok("LBrace"))
       IN IF ~r.ok
          THEN /\ Return(r)
               /\ UNCHANGED parser
          ELSE /\ parser' = e.p
               /\ IF ~e.res.ok THEN Return(e.res)
                  ELSE /\ CallFn([fn |-> "parse_if_expression",
                                  pc |-> "consequence",
                                  condition |-> r.val],
                                 Frame("parse_block_statement"))
                       /\ ret' = <<>>
    /\ UNCHANGED <<log, calls>>

parse_if_expression_2 ==
    /\ Running("parse_if_expression", "consequence")
    /\ ret /= <<>>
    /\ LET r == ret[1]
           e == expect_peek(next_token(parser), Tok("LBrace"))
       IN IF ~r.ok
          THEN /\ Return(r)
               /\ UNCHANGED parser
          ELSE IF parser.peek_token = Tok("Else")
          THEN /\ parser' = e.p
               /\ IF ~e.res.ok THEN Return(e.res)
                  ELSE /\ CallFn([fn |-> "parse_if_expression",
                                  pc |-> "alternative",
                                  condition |-> Top.condition,
                                  consequence |-> r.val],
                                 Frame("parse_block_statement"))
                       /\ ret' = <<>>
          ELSE /\ Return(Ok(IfExpr(Top.condition, r.val, <<>>)))
               /\ UNCHANGED parser
    /\ UNCHANGED <<log, calls>>

\* parse_if_expression losing the alternative block
parse_if_expression_3_none ==
    /\ Running("parse_if_expression", "alternative")
    /\ ret /= <<>>
    /\ LET r == ret[1]
       IN IF ~r.ok THEN Return(r)
          ELSE Return(Ok(IfExpr(Top.condition, Top.consequence, <<>>)))
    /\ UNCHANGED <<parser, log, calls>>

parse_if_expression_3 ==
    /\ Running("parse_if_expression", "alternative")
    /\ ret /= <<>>
    /\ LET r == ret[1]
       IN IF ~r.ok THEN Return(r)
          ELSE Return(Ok(IfExpr(Top.condition, Top.consequence, <<r.val>>)))
    /\ UNCHANGED <<parser, log, calls>>

----------------------------------------------------------------------------
(* The inputs: token streams, as the lexer would deliver them.             *)

MaxLen   == 3    \* length of the streams enumerated in full
MaxCalls == 2    \* calls of parse_program on one parser

BinaryOps == {Tok(t) : t \in InfixArm}
PrefixOps == {Tok("Bang"), Tok("Minus"), Tok("Plus")}
Operands  == {make_ident("a"), make_int(<<5>>), Tok("True")}

AllTokens ==
    BinaryOps \cup
    {make_ident("a"), make_ident("b"), make_int(<<5>>), make_int(<<0, 7>>),
     make_int(<<9,9,9,9,9,9,9,9,9,9,9,9,9,9,9,9,9,9,9,9>>),
     Tok("Bang"), Tok("Assign"), Tok("Semicolon"), Tok("LParen"),
     Tok("RParen"), Tok("LBrace"), Tok("RBrace"), Tok("True"), Tok("False"),
     Tok("If"), Tok("Else"), Tok("Let"), Tok("Return")}

CoreTokens ==
    {make_ident("a"), make_int(<<5>>), Tok("Plus"), Tok("Asterisk"),
     Tok("Bang"), Tok("Assign"), Tok("Semicolon"), Tok("LParen"),
     Tok("RParen"), Tok("LBrace"), Tok("RBrace"), Tok("If"), Tok("Else"),
     Tok("Let"), Tok("Return")}

Streams(S, n) == UNION {[1..k -> S] : k \in 0..n}

\* a op1 b op2 c
InfixChains ==
    {<<a, op1, b, op2, c>> :
        a \in Operands, op1 \in BinaryOps, b \in Operands,
        op2 \in BinaryOps, c \in Operands}

\* p a op b   and   p ( a op b )
PrefixChains ==
    {<<p, a, op, b>> :
        p \in PrefixOps, a \in Operands, op \in BinaryOps, b \in Operands}
    \cup
    {<<p, Tok("LParen"), a, op, b, Tok("RParen")>> :
        p \in PrefixOps, a \in Operands, op \in BinaryOps, b \in Operands}

\* ( a op1 b ) op2 c   and   a op2 ( b op1 c )
GroupedChains ==
    {<<Tok("LParen"), a, op1, b, Tok("RParen"), op2, c>> :
        a \in Operands, op1 \in BinaryOps, b \in Operands,
        op2 \in BinaryOps, c \in Operands}
    \cup
    {<<a, op2, Tok("LParen"), b, op1, c, Tok("RParen")>> :
        a \in Operands, op1 \in BinaryOps, b \in Operands,
        op2 \in BinaryOps, c \in Operands}

\* let x 5; let = 10; let 838383;
InvalidLets ==
    <<Tok("Let"), make_ident("x"), make_int(<<5>>), Tok("Semicolon"),
      Tok("Let"), Tok("Assign"), make_int(<<1, 0>>), Tok("Semicolon"),
      Tok("Let"), make_int(<<8, 3, 8, 3, 8, 3>>), Tok("Semicolon")>>

\* conditions and block statements of the if-expressions, each with the
\* tree it stands for
Conditions ==
    {[toks |-> <<make_ident("x")>>, ast |-> Identifier("x")],
     [toks |-> <<Tok("True")>>, ast |-> Boolean(TRUE)],
     [toks |-> <<make_ident("x"), Tok("Lt"), make_ident("y")>>,
      ast |-> InfixExpr(Tok("Lt"), Identifier("x"), Identifier("y"))]}

BlockStmts ==
    {[toks |-> <<make_ident("x")>>,
      ast |-> ExprStmt(make_ident("x"), Identifier("x"))],
     [toks |-> <<make_ident("y"), Tok("Semicolon")>>,
      ast |-> ExprStmt(make_ident("y"), Identifier("y"))],
     [toks |-> <<make_int(<<5>>), Tok("Plus"), make_ident("x")>>,
      ast |-> ExprStmt(make_ident("x"),
                       InfixExpr(Tok("Plus"), IntegerLiteral(<<5>>),
                                 Identifier("x")))],
     [toks |-> <<Tok("Let"), make_ident("y"), Tok("Assign"),
                 make_int(<<5>>), Tok("Semicolon")>>,
      ast |-> LetStmt(Tok("Let"), Identifier("y"), IntegerLiteral(<<5>>))],
     [toks |-> <<Tok("Return"), make_ident("x"), Tok("Semicolon")>>,
      ast |-> ReturnStmt(Tok("Return"), Nothing)]}

IfTokens(c, s1) ==
    <<Tok("If"), Tok("LParen")>> \o c.toks \o <<Tok("RParen"), Tok("LBrace")>>
      \o s1.toks \o <<Tok("RBrace")>>

IfElseTokens(c, s1, s2) ==
    IfTokens(c, s1) \o <<Tok("Else"), Tok("LBrace")>> \o s2.toks
      \o <<Tok("RBrace")>>

IfInputs ==
    {IfTokens(c, s1) : c \in Conditions, s1 \in BlockStmts}
    \cup
    {IfElseTokens(c, s1, s2) :
        c \in Conditions, s1 \in BlockStmts, s2 \in BlockStmts}

\* if (c) { followed by a body that fails inside the block, or that
\* end-of-input and no `}` ends
MalformedBodies ==
    {<<Tok("Assign")>>,
     <<Tok("Assign"), Tok("RBrace")>>,
     <<make_ident("x"), Tok("Semicolon"), Tok("Assign"), Tok("RBrace")>>,
     <<make_ident("x"), Tok("Semicolon"), Tok("RParen"), make_ident("y"),
       Tok("RBrace"), make_ident("y")>>,
     <<Tok("Let"), make_int(<<5>>), Tok("RBrace")>>,
     <<make_ident("x")>>,
     <<make_ident("x"), Tok("Semicolon"), make_ident("y")>>,
     <<make_ident("x"), Tok("RBrace"), Tok("Else"), Tok("LBrace"),
       Tok("Assign"), Tok("RBrace")>>,
     <<make_ident("x"), Tok("RBrace"), Tok("Else"), Tok("LBrace"),
       make_ident("y")>>}

MalformedIfs ==
    {<<Tok("If"), Tok("LParen")>> \o c.toks
        \o <<Tok("RParen"), Tok("LBrace")>> \o body :
        c \in Conditions, body \in MalformedBodies}

\* the bodies of at most two statements, each with its statements
UnterminatedBodies ==
    {[toks |-> <<>>, asts |-> <<>>]}
    \cup {[toks |-> s.toks, asts |-> <<s.ast>>] : s \in BlockStmts}
    \cup {[toks |-> s.toks \o t.toks, asts |-> <<s.ast, t.ast>>] :
            s \in BlockStmts, t \in BlockStmts}

\* if (c) { body, and end-of-input where the `}` should be
UnterminatedIfTokens(c, b) ==
    <<Tok("If"), Tok("LParen")>> \o c.toks \o <<Tok("RParen"), Tok("LBrace")>>
      \o b.toks

\* if (c) { s1 } else { body, and end-of-input where the `}` should be
UnterminatedElseTokens(c, s1, b) ==
    IfTokens(c, s1) \o <<Tok("Else"), Tok("LBrace")>> \o b.toks

UnterminatedIfs ==
    {UnterminatedIfTokens(c, b) : c \in Conditions, b \in UnterminatedBodies}
    \cup
    {UnterminatedElseTokens(c, s1, b) :
        c \in Conditions, s1 \in BlockStmts,
        b \in {u \in UnterminatedBodies : Len(u.asts) <= 1}}

MaxStmts == 3    \* statements in the sequences of let and return statements

RECURSIVE Concats(_, _)
\* the concatenations of at most n members of U
Concats(U, n) ==
    IF n = 0 THEN {<<>>}
    ELSE LET shorter == Concats(U, n - 1)
         IN shorter \cup {p \o u : p \in shorter, u \in U}

\* integer literals, each with the value its text denotes
LetInts ==
    {[digits |-> <<5>>, value |-> <<5>>],
     [digits |-> <<0, 7>>, value |-> <<7>>]}

LetNames == {"x", "foobar"}

\* let <name> = <int>;
LetUnits ==
    {<<Tok("Let"), make_ident(n), Tok("Assign"), make_int(i.digits),
       Tok("Semicolon")>> : n \in LetNames, i \in LetInts}

LetSequences == Concats(LetUnits, MaxStmts)

\* what a return statement skips: anything without a `;`
ReturnBodies ==
    {<<>>,
     <<make_int(<<5>>)>>,
     <<make_ident("x"), Tok("Plus"), make_int(<<5>>)>>,
     <<Tok("Assign"), Tok("RParen")>>,
     <<Tok("Let"), Tok("Return")>>}

\* return <tokens>;
ReturnUnits ==
    {<<Tok("Return")>> \o b \o <<Tok("Semicolon")>> : b \in ReturnBodies}

ReturnSequences == Concats(ReturnUnits, MaxStmts)

\* let and expression statements without their `;`, each with the
\* statement it stands for
SemicolonCases ==
    {[toks |-> <<make_ident("x")>>,
      ast |-> ExprStmt(make_ident("x"), Identifier("x"))],
     [toks |-> <<make_int(<<5>>), Tok("Plus"), make_ident("x")>>,
      ast |-> ExprStmt(make_ident("x"),
                       InfixExpr(Tok("Plus"), IntegerLiteral(<<5>>),
                                 Identifier("x")))],
     [toks |-> <<Tok("Bang"), Tok("True")>>,
      ast |-> ExprStmt(Tok("True"), PrefixExpr(Tok("Bang"), Boolean(TRUE)))],
     [toks |-> <<Tok("Let"), make_ident("y"), Tok("Assign"), make_int(<<5>>)>>,
      ast |-> LetStmt(Tok("Let"), Identifier("y"), IntegerLiteral(<<5>>))],
     [toks |-> <<Tok("Let"), make_ident("y"), Tok("Assign"), make_ident("x"),
                 Tok("Asterisk"), make_int(<<5>>)>>,
      ast |-> LetStmt(Tok("Let"), Identifier("y"),
                      InfixExpr(Tok("Asterisk"), Identifier("x"),
                                IntegerLiteral(<<5>>)))]}

\* what follows the statement: nothing, an identifier or a `}`, each
\* with and without a `;` first
SemicolonTails ==
    {<<>>, <<make_ident("z")>>, <<Tok("RBrace")>>,
     <<Tok("Semicolon")>>, <<Tok("Semicolon"), make_ident("z")>>,
     <<Tok("Semicolon"), Tok("RBrace")>>}

SemicolonInputs ==
    {c.toks \o t : c \in SemicolonCases, t \in SemicolonTails}

Inputs ==
    Streams(CoreTokens, MaxLen)
      \cup Streams(AllTokens, 1)
      \cup InfixChains
      \cup PrefixChains
      \cup GroupedChains
      \cup IfInputs
      \cup MalformedIfs
      \cup LetSequences
      \cup ReturnSequences
      \cup SemicolonInputs
      \cup UnterminatedIfs
      \cup {InvalidLets}

----------------------------------------------------------------------------
(* The parser is constructed on a lexer; its owner then calls              *)
(* parse_program, and may call it again when it has returned.              *)

Init ==
    /\ \E input \in Inputs : parser = Parser_new(Lexer_new(input))
    /\ stack = <<>>
    /\ ret = <<>>
    /\ log = <<>>
    /\ calls = 0

call_parse_program ==
    /\ Idle
    /\ calls < MaxCalls
    /\ stack' = <<ProgramFrame>>
    /\ ret' = <<>>
    /\ calls' = calls + 1
    /\ log' = <<>>
    /\ UNCHANGED parser

Next ==
    \/ call_parse_program
    \/ parse_program
    \/ parse_program_1
    \/ parse_statement
    \/ parse_let_statement
    \/ parse_let_statement_1
    \/ parse_return_statement
    \/ parse_return_statement_1
    \/ parse_return_statement_2
    \/ parse_expression_statement
    \/ parse_expression_statement_1
    \/ parse_expression
    \/ parse_expression_1
    \/ parse_expression_2
    \/ parse_expression_3
    \/ parse_prefix_expression
    \/ parse_prefix_expression_1
    \/ parse_infix_expression
    \/ parse_infix_expression_1
    \/ parse_grouped_expression
    \/ parse_grouped_expression_1
    \/ parse_block_statement
    \/ parse_block_statement_1
    \/ parse_block_statement_2
    \/ parse_if_expression
    \/ parse_if_expression_1
    \/ parse_if_expression_2
    \/ parse_if_expression_3

Spec == Init /\ [][Next]_vars

\* the program is sequential code: a step that can be taken is taken
FairSpec == Spec /\ WF_vars(Next)

----------------------------------------------------------------------------
(* Properties.                                                             *)

Input == parser.lexer.input

\* the statements of the program of the call in progress or just returned
CurrentProgram ==
    IF stack /= <<>> THEN stack[1].program
    ELSE IF ret /= <<>> THEN ret[1].val.statements
    ELSE <<>>

\* C1: for every finite token stream followed by end-of-input for ever,
\* parse_program terminates and returns a program, and on return the
\* current token is end-of-input.
C1_ParseProgramTerminates ==
    <>(Returned(1) /\ ret /= <<>> /\ ret[1].ok /\ parser.cur_token = EOF)

IsOk(e)   == e.ok
IsErr(e)  == ~e.ok

\* C2: every iteration of parse_program's loop adds exactly one element, a
\* statement to the program when parse_statement succeeded and else an error
\* to the diagnostics; so the statements are the successful attempts in
\* order, the diagnostics added in this call are the failed attempts in
\* order, and their numbers sum to the number of completed attempts.
C2_OneElementPerAttempt ==
    LET succ == SelectSeq(log, IsOk)
        fail == SelectSeq(log, IsErr)
        errs == parser.errors
        base == Len(errs) - Len(fail)
    IN /\ Len(CurrentProgram) = Len(succ)
       /\ \A i \in 1..Len(succ) : CurrentProgram[i] = succ[i].item
       /\ base >= 0
       /\ \A i \in 1..Len(fail) : errs[base + i] = fail[i].item
       /\ calls <= 1 => Len(CurrentProgram) + Len(errs) = Len(log)

C2_Witness ==
    /\ Returned(1)
    /\ Len(log) >= 3
    /\ Len(CurrentProgram) >= 1
    /\ Len(parser.errors) >= 2

\* C3: parse_return_statement never advances while the current token is
\* end-of-input (end-of-input ends the skip as a `;` does).
C3_ReturnSkipStopsAtEOF ==
    ~(Running("parse_return_statement", "advance") /\ parser.cur_token = EOF)

\* the diagnostics of `let x 5; let = 10; let 838383;`
InvalidLetsErrors ==
    <<ExpectedToken(Tok("Assign"), make_int(<<5>>)),
      ExpectedIdent(Tok("Assign")),
      UnhandledPrefix(Tok("Assign")),
      ExpectedIdent(make_int(<<8, 3, 8, 3, 8, 3>>))>>

\* C4: parsing `let x 5; let = 10; let 838383;` records exactly these four
\* diagnostics, in this order: each attempt after a failed let resumes from
\* where the failed parse stopped.
C4_InvalidLetDiagnostics ==
    (Returned(1) /\ Input = InvalidLets) => parser.errors = InvalidLetsErrors

C4_Witness == Returned(1) /\ Input = InvalidLets /\ Len(log) = 7

----------------------------------------------------------------------------
(* Expected shapes of expressions.                                         *)

\* the levels of the binary operators as the specification lists them
SpecLevel(op) ==
    CASE op.tag \in {"Eq", "NotEq"}       -> "Equals"
      [] op.tag \in {"Gt", "Lt"}          -> "LessGreater"
      [] op.tag \in {"Plus", "Minus"}     -> "Sum"
      [] op.tag \in {"Asterisk", "Slash"} -> "Product"

\* hi binds tighter than lo: Equals < LessGreater < Sum < Product
Tighter(hi, lo) ==
    <<SpecLevel(lo), SpecLevel(hi)>> \in
        {<<"Equals", "LessGreater">>, <<"Equals", "Sum">>,
         <<"Equals", "Product">>, <<"LessGreater", "Sum">>,
         <<"LessGreater", "Product">>, <<"Sum", "Product">>}

\* the expression an operand token stands for
Atom(tok) ==
    CASE tok.tag = "Ident" -> Identifier(tok.name)
      [] tok.tag = "Int"   -> IntegerLiteral(tok.digits)
      [] tok.tag = "True"  -> Boolean(TRUE)
      [] tok.tag = "False" -> Boolean(FALSE)

\* the first call returned one Expression statement holding e, no diagnostic
ParsedTo(e) ==
    /\ parser.errors = <<>>
    /\ Len(CurrentProgram) = 1
    /\ CurrentProgram[1].kind = "Expression"
    /\ CurrentProgram[1].expr = e

IsInfixChain(in) ==
    /\ Len(in) = 5
    /\ in[1] \in Operands /\ in[3] \in Operands /\ in[5] \in Operands
    /\ in[2] \in BinaryOps /\ in[4] \in BinaryOps

\* C5: a op1 b op2 c with op1 and op2 of the same level parses, without
\* diagnostics, to Infix(op2, Infix(op1, a, b), c).
C5_LeftAssociative ==
    (/\ Returned(1)
     /\ IsInfixChain(Input)
     /\ SpecLevel(Input[2]) = SpecLevel(Input[4]))
    => ParsedTo(InfixExpr(Input[4],
                          InfixExpr(Input[2], Atom(Input[1]), Atom(Input[3])),
                          Atom(Input[5])))

C5_Witness ==
    /\ Returned(1)
    /\ IsInfixChain(Input)
    /\ Input[2] = Tok("Plus") /\ Input[4] = Tok("Minus")
    /\ CurrentProgram /= <<>>

\* C6: a lo b hi c parses to Infix(lo, a, Infix(hi, b, c)) and a hi b lo c
\* to Infix(lo, Infix(hi, a, b), c) when hi is of a higher level than lo,
\* without diagnostics.
C6_HigherLevelBindsTighter ==
    (Returned(1) /\ IsInfixChain(Input)) =>
        /\ Tighter(Input[4], Input[2]) =>
             ParsedTo(InfixExpr(Input[2], Atom(Input[1]),
                                InfixExpr(Input[4], Atom(Input[3]),
                                          Atom(Input[5]))))
        /\ Tighter(Input[2], Input[4]) =>
             ParsedTo(InfixExpr(Input[4],
                                InfixExpr(Input[2], Atom(Input[1]),
                                          Atom(Input[3])),
                                Atom(Input[5])))

C6_Witness ==
    /\ Returned(1)
    /\ IsInfixChain(Input)
    /\ Input[2] = Tok("Eq") /\ Input[4] = Tok("Asterisk")
    /\ Len(CurrentProgram) = 1
    /\ CurrentProgram[1].expr.right.kind = "Infix"

IsPrefixChain(in) ==
    /\ Len(in) = 4
    /\ in[1] \in PrefixOps /\ in[3] \in BinaryOps
    /\ in[2] \in Operands /\ in[4] \in Operands

IsPrefixGroup(in) ==
    /\ Len(in) = 6
    /\ in[1] \in PrefixOps /\ in[4] \in BinaryOps
    /\ in[2] = Tok("LParen") /\ in[6] = Tok("RParen")
    /\ in[3] \in Operands /\ in[5] \in Operands

\* C7: p a op b parses to Infix(op, Prefix(p, a), b) for every prefix
\* operator p and binary operator op; the operand of the Prefix node takes
\* in a binary operator only inside parentheses: p (a op b) parses to
\* Prefix(p, Infix(op, a, b)).
C7_PrefixBindsTightest ==
    Returned(1) =>
        /\ IsPrefixChain(Input) =>
             ParsedTo(InfixExpr(Input[3],
                                PrefixExpr(Input[1], Atom(Input[2])),
                                Atom(Input[4])))
        /\ IsPrefixGroup(Input) =>
             ParsedTo(PrefixExpr(Input[1],
                                 InfixExpr(Input[4], Atom(Input[3]),
                                           Atom(Input[5]))))

C7_Witness ==
    /\ Returned(1)
    /\ IsPrefixChain(Input)
    /\ Input[1] = Tok("Minus") /\ Input[3] = Tok("Asterisk")
    /\ Len(CurrentProgram) = 1
    /\ CurrentProgram[1].expr.left.kind = "Prefix"

IsGroupLeft(in) ==
    /\ Len(in) = 7
    /\ in[1] = Tok("LParen") /\ in[5] = Tok("RParen")
    /\ in[2] \in Operands /\ in[4] \in Operands /\ in[7] \in Operands
    /\ in[3] \in BinaryOps /\ in[6] \in BinaryOps

IsGroupRight(in) ==
    /\ Len(in) = 7
    /\ in[3] = Tok("LParen") /\ in[7] = Tok("RParen")
    /\ in[1] \in Operands /\ in[4] \in Operands /\ in[6] \in Operands
    /\ in[2] \in BinaryOps /\ in[5] \in BinaryOps

\* C8: (a op1 b) op2 c parses to Infix(op2, Infix(op1, a, b), c) and
\* a op2 (b op1 c) to Infix(op2, a, Infix(op1, b, c)), whatever the levels
\* of op1 and op2, without diagnostics and without a node for the
\* parentheses.
C8_ParenthesesOverride ==
    Returned(1) =>
        /\ IsGroupLeft(Input) =>
             ParsedTo(InfixExpr(Input[6],
                                InfixExpr(Input[3], Atom(Input[2]),
                                          Atom(Input[4])),
                                Atom(Input[7])))
        /\ IsGroupRight(Input) =>
             ParsedTo(InfixExpr(Input[2], Atom(Input[1]),
                                InfixExpr(Input[5], Atom(Input[4]),
                                          Atom(Input[6]))))

C8_Witness ==
    /\ Returned(1)
    /\ IsGroupRight(Input)
    /\ Input[2] = Tok("Asterisk") /\ Input[5] = Tok("Plus")
    /\ Len(CurrentProgram) = 1
    /\ CurrentProgram[1].expr.kind = "Infix"

----------------------------------------------------------------------------
(* if-expressions.                                                         *)

BlockOf(s) == BlockStatement(Tok("LBrace"), <<s.ast>>)

\* C9: if (c) { s1 } else { s2 } parses without diagnostics to exactly one
\* Expression statement holding If{c, [s1], Some([s2])}, and if (c) { s1 },
\* where end-of-input and not `else` follows the `}`, to If{c, [s1], None}.
C9_IfElseShape ==
    Returned(1) =>
        \A c \in Conditions, s1 \in BlockStmts :
            /\ Input = IfTokens(c, s1) =>
                 ParsedTo(IfExpr(c.ast, BlockOf(s1), <<>>))
            /\ \A s2 \in BlockStmts :
                 Input = IfElseTokens(c, s1, s2) =>
                   ParsedTo(IfExpr(c.ast, BlockOf(s1), <<BlockOf(s2)>>))

C9_Witness ==
    /\ Returned(1)
    /\ Len(Input) = 13
    /\ Input[1] = Tok("If")
    /\ Input[9] = Tok("Else")
    /\ Len(CurrentProgram) = 1
    /\ CurrentProgram[1].expr.kind = "If"
    /\ CurrentProgram[1].expr.alternative /= <<>>

----------------------------------------------------------------------------
(* Statements that no prefix rule can begin.                               *)

\* the tokens with a prefix rule
PrefixRuleTags ==
    {"Ident", "Int", "Bang", "Minus", "Plus", "True", "False", "LParen", "If"}

\* the statement attempts in hand: the completed top-level ones, and the
\* one a block has just got an answer for
Attempts ==
    {[start |-> log[i].start, r |-> [ok |-> log[i].ok, val |-> log[i].item]]
        : i \in 1..Len(log)}
    \cup
    (IF Running("parse_block_statement", "stmt") /\ ret /= <<>>
     THEN {[start |-> Top.start, r |-> ret[1]]} ELSE {})

\* C10 as stated: a statement beginning with any token other than those
\* with a prefix rule fails with UnhandledPrefix carrying that token and
\* adds no statement.
C10_AsStated ==
    \A a \in Attempts :
        a.start.tag \notin PrefixRuleTags =>
            a.r = Err(UnhandledPrefix(a.start))

\* C10: a statement beginning with a token other than `let`, `return` and
\* those with a prefix rule fails with UnhandledPrefix carrying that token;
\* at top level the diagnostic is recorded and no statement is added.
C10_UnhandledPrefix ==
    /\ \A a \in Attempts :
          a.start.tag \notin PrefixRuleTags \cup {"Let", "Return"} =>
              a.r = Err(UnhandledPrefix(a.start))
    /\ (log /= <<>>
        /\ log[Len(log)].start.tag \notin PrefixRuleTags \cup {"Let", "Return"})
       => /\ parser.errors /= <<>>
          /\ parser.errors[Len(parser.errors)]
               = UnhandledPrefix(log[Len(log)].start)
          /\ Len(CurrentProgram) = Len(SelectSeq(SubSeq(log, 1, Len(log) - 1),
                                                 IsOk))

C10_Witness ==
    /\ Returned(1)
    /\ Len(log) = 2
    /\ log[1].ok
    /\ log[2].start = Tok("Assign")
    /\ parser.errors = <<UnhandledPrefix(Tok("Assign"))>>
    /\ Len(CurrentProgram) = 1

\* a block is answered UnhandledPrefix for a statement that began with `=`
C10_WitnessInBlock ==
    /\ Running("parse_block_statement", "stmt")
    /\ ret /= <<>>
    /\ Top.start = Tok("Assign")
    /\ Top.block.statements /= <<>>

----------------------------------------------------------------------------
(* Calls of parse_program, let statements, the empty stream.               *)

\* the diagnostics of the failed attempts of the log, in order
LogErrors ==
    LET fail == SelectSeq(log, IsErr)
    IN [i \in 1..Len(fail) |-> fail[i].item]

\* C11: whenever parse_program has returned, errors() is exactly the
\* diagnostics collected during the most recent call, in order.
C11_ErrorsOfMostRecentCall ==
    (Idle /\ calls >= 1) => parser.errors = LogErrors

IsLetSequence(in) ==
    /\ Len(in) % 5 = 0
    /\ \A k \in 0..(Len(in) \div 5 - 1) :
          /\ in[5 * k + 1] = Tok("Let")
          /\ in[5 * k + 2].tag = "Ident"
          /\ in[5 * k + 3] = Tok("Assign")
          /\ in[5 * k + 4] \in {make_int(i.digits) : i \in LetInts}
          /\ in[5 * k + 5] = Tok("Semicolon")

IntValue(tok) == (CHOOSE i \in LetInts : i.digits = tok.digits).value

\* C12: n well-formed statements let <name_i> = <int_i>; parse to exactly
\* n Let statements in source order, the i-th with token `let`, name name_i
\* and value IntegerLiteral(int_i), and no diagnostic.
C12_LetStatements ==
    (Returned(1) /\ IsLetSequence(Input)) =>
        /\ parser.errors = <<>>
        /\ Len(CurrentProgram) = Len(Input) \div 5
        /\ \A i \in 1..Len(CurrentProgram) :
              CurrentProgram[i] =
                  LetStmt(Tok("Let"),
                          Identifier(Input[5 * i - 3].name),
                          IntegerLiteral(IntValue(Input[5 * i - 1])))

C12_Witness ==
    /\ Returned(1)
    /\ IsLetSequence(Input)
    /\ Len(CurrentProgram) = MaxStmts
    /\ CurrentProgram[1].name /= CurrentProgram[2].name
    /\ CurrentProgram[2].value /= CurrentProgram[3].value

\* C13: on the empty token stream parse_program makes no attempt and does
\* not advance the window (the two pulls of the construction stay the only
\* ones), and it returns a program without statements, with no diagnostic.
C13_EmptyStream ==
    Input = <<>> =>
        /\ parser.cur_token = EOF
        /\ parser.lexer.pulls = 2
        /\ parser.errors = <<>>
        /\ log = <<>>
        /\ CurrentProgram = <<>>
        /\ Idle /\ calls >= 1 => ret = <<Ok(Program(<<>>))>>

C13_Witness == Returned(1) /\ Input = <<>> /\ ret /= <<>>

----------------------------------------------------------------------------
(* The expect operations.                                                  *)

\* the token the lexer delivers at its next pull
Upcoming(p) ==
    IF p.lexer.position <= Len(p.lexer.input)
    THEN p.lexer.input[p.lexer.position] ELSE EOF

\* q is p advanced by exactly one token
AdvancedByOne(p, q) ==
    /\ q.cur_token = p.peek_token
    /\ q.peek_token = Upcoming(p)
    /\ q.lexer.input = p.lexer.input
    /\ q.lexer.position =
          IF p.lexer.position <= Len(p.lexer.input)
          THEN p.lexer.position + 1 ELSE p.lexer.position
    /\ p.lexer.pulls < MaxPulls => q.lexer.pulls = p.lexer.pulls + 1
    /\ q.errors = p.errors

\* t is what expect_peek(t) looks for in the token next
Matches(t, next) ==
    \/ t.tag = next.tag /\ t.tag \in {"Ident", "Int"}
    \/ t = next

\* C14: in every state the parser reaches, expect_peek(t) and expect_ident
\* either succeed and advance the window by exactly one token, or fail and
\* leave the current token, the next token and the lexer as they were,
\* with ExpectedToken{t, next token} resp. ExpectedIdent(next token).
C14_ExpectDoesNotConsumeOnFailure ==
    /\ \A t \in AllTokens :
          LET e == expect_peek(parser, t)
          IN IF Matches(t, parser.peek_token)
             THEN e.res = Ok(Unit) /\ AdvancedByOne(parser, e.p)
             ELSE /\ e.res = Err(ExpectedToken(t, parser.peek_token))
                  /\ e.p = parser
    /\ LET i == expect_ident(parser)
       IN IF parser.peek_token.tag = "Ident"
          THEN /\ i.res = Ok(Identifier(parser.peek_token.name))
               /\ AdvancedByOne(parser, i.p)
          ELSE /\ i.res = Err(ExpectedIdent(parser.peek_token))
               /\ i.p = parser

\* parse_let_statement has failed in expect_peek: the token it saw is
\* still the next token, behind the identifier that expect_ident consumed
C14_Witness ==
    /\ Running("parse_program", "stmt")
    /\ ret = <<Err(ExpectedToken(Tok("Assign"), make_int(<<5>>)))>>
    /\ parser.cur_token.tag = "Ident"
    /\ parser.peek_token = make_int(<<5>>)
    /\ parser.lexer.pulls = 3

----------------------------------------------------------------------------
(* Failures inside nested constructs.                                      *)

\* a callee has just returned an error to the running function
ErrPending == stack /= <<>> /\ ret /= <<>> /\ ~ret[1].ok

\* what the function that is handed an error does next: parse_program
\* records it and keeps its statements; every other function returns at
\* once, with that same error and without touching the window (only
\* parse_grouped_expression may first look for its `)`)
ErrPropagates ==
    ErrPending =>
        IF Top.fn = "parse_program"
        THEN /\ parser'.errors = Append(parser.errors, ret[1].val)
             /\ Len(stack') = 1
             /\ stack'[1].program = stack[1].program
        ELSE /\ stack' = SubSeq(stack, 1, Len(stack) - 1)
             /\ ret' /= <<>> /\ ~ret'[1].ok
             /\ Top.fn /= "parse_grouped_expression" =>
                   ret' = ret /\ parser' = parser

\* if (c) { x; = }
FailsInBlock(in) ==
    \E c \in Conditions :
        in = <<Tok("If"), Tok("LParen")>> \o c.toks
               \o <<Tok("RParen"), Tok("LBrace"), make_ident("x"),
                    Tok("Semicolon"), Tok("Assign"), Tok("RBrace")>>

\* C15: an error returned inside a block, an if-expression or any other
\* nested parse is returned on at once, unchanged, up to parse_program,
\* which records that one diagnostic and adds no statement; so
\* if (c) { x; = } leaves no If node and no statement `x` in the program:
\* its attempt records UnhandledPrefix(=), and the next attempt begins at
\* the `}`.
C15_NoLocalRecovery ==
    /\ [][ErrPropagates]_vars
    /\ []((Returned(1) /\ FailsInBlock(Input)) =>
            /\ CurrentProgram = <<>>
            /\ log[1] = [start |-> Tok("If"), ok |-> FALSE,
                         item |-> UnhandledPrefix(Tok("Assign"))]
            /\ parser.errors = <<UnhandledPrefix(Tok("Assign")),
                                 UnhandledPrefix(Tok("RBrace"))>>)

\* parse_program is handed the error of a statement inside the block of
\* the if-expression its attempt began with
C15_Witness ==
    /\ Running("parse_program", "stmt")
    /\ FailsInBlock(Input)
    /\ Top.start = Tok("If")
    /\ ret = <<Err(UnhandledPrefix(Tok("Assign")))>>
    /\ parser.cur_token = Tok("Assign")

----------------------------------------------------------------------------
(* Grouped expressions.                                                    *)

\* the step of parse_grouped_expression that follows the inner parse
GroupedRequiresRParen ==
    (Running("parse_grouped_expression", "inner") /\ ret /= <<>>) =>
        IF parser.peek_token = Tok("RParen")
        THEN /\ ret' = ret
             /\ AdvancedByOne(parser, parser')
        ELSE /\ ret' = <<Err(ExpectedToken(Tok("RParen"), parser.peek_token))>>
             /\ parser' = parser

\* C16: after the inner parse, parse_grouped_expression returns the inner
\* result (expression or error) and consumes the `)` when `)` is next, and
\* returns ExpectedToken{expected `)`, saw the next token} without
\* advancing when it is not, whether or not the inner parse failed.
C16_GroupedRParenPriority == [][GroupedRequiresRParen]_vars

\* `( =` at end of input: the inner parse failed at `=`, and the error
\* returned is the one for the missing `)`
C16_Witness ==
    /\ Running("parse_expression", "prefix")
    /\ parser.cur_token = Tok("Assign")
    /\ ret = <<Err(ExpectedToken(Tok("RParen"), EOF))>>

----------------------------------------------------------------------------
(* Return statements.                                                      *)

\* return <tokens>; ... return <tokens>;  with no `;` among the <tokens>
IsReturnSequence(in) ==
    /\ in /= <<>>
    /\ in[1] = Tok("Return")
    /\ in[Len(in)] = Tok("Semicolon")
    /\ \A i \in 1..(Len(in) - 1) :
          in[i] = Tok("Semicolon") => in[i + 1] = Tok("Return")

Semicolons(in) == {i \in 1..Len(in) : in[i] = Tok("Semicolon")}

\* the index of the k-th `;` of the stream
NthSemicolon(in, k) ==
    CHOOSE i \in Semicolons(in) :
        Cardinality({j \in Semicolons(in) : j <= i}) = k

\* C17: a statement that begins with `return` never fails and is always
\* Return{`return`, Nothing}; in a stream of n statements return <tokens>;
\* each one ends with the current token on its own `;`, the first after its
\* `return`, whatever the tokens skipped, and the program is n Return
\* statements with no diagnostic.
C17_ReturnSkipsToSemicolon ==
    /\ \A a \in Attempts :
          a.start = Tok("Return") =>
              a.r = Ok(ReturnStmt(Tok("Return"), Nothing))
    /\ IsReturnSequence(Input) =>
          /\ (Running("parse_program", "stmt") /\ ret /= <<>>) =>
                /\ parser.cur_token = Tok("Semicolon")
                /\ parser.lexer.pulls - 1 = NthSemicolon(Input, Len(log) + 1)
          /\ Returned(1) =>
                /\ parser.errors = <<>>
                /\ Len(CurrentProgram) = Cardinality(Semicolons(Input))

\* the second of three return statements is handed to parse_program, its
\* skipped tokens being `= )`
C17_Witness ==
    /\ Running("parse_program", "stmt")
    /\ ret /= <<>>
    /\ IsReturnSequence(Input)
    /\ Cardinality(Semicolons(Input)) = 3
    /\ Len(log) = 1
    /\ Input[parser.lexer.pulls - 2] = Tok("RParen")

----------------------------------------------------------------------------
(* The token of an Expression statement; optional semicolons.              *)

\* C18: the token stored in an Expression statement is the token its
\* statement began with.
C18_ExpressionTokenIsStart ==
    \A a \in Attempts :
        (a.r.ok /\ a.r.val.kind = "Expression") => a.r.val.token = a.start

\* the first statement of the stream has just been handed to parse_program
FirstStatementBack ==
    Running("parse_program", "stmt") /\ ret /= <<>> /\ log = <<>>

\* C19: a let or expression statement is parsed to the same statement,
\* without diagnostic, whether or not a `;` follows it, and parsing it ends
\* with the current token on that `;` when there is one and else on the
\* last token of the expression, whatever comes next.
C19_OptionalSemicolon ==
    FirstStatementBack =>
        \A c \in SemicolonCases, t \in SemicolonTails :
            Input = c.toks \o t =>
                LET semi == t /= <<>> /\ t[1] = Tok("Semicolon")
                    last == IF semi THEN Len(c.toks) + 1 ELSE Len(c.toks)
                IN /\ ret = <<Ok(c.ast)>>
                   /\ parser.errors = <<>>
                   /\ parser.cur_token = Input[last]
                   /\ parser.lexer.pulls - 1 = last

\* `let y = x * 5` before a `}` and no `;`: the statement is back and the
\* `}` is still the next token
C19_Witness ==
    /\ FirstStatementBack
    /\ Input \in SemicolonInputs
    /\ ret[1].ok /\ ret[1].val.kind = "Let"
    /\ parser.cur_token = make_int(<<5>>)
    /\ parser.peek_token = Tok("RBrace")

----------------------------------------------------------------------------
(* The infix loop of parse_expression.                                     *)

\* the position of a token's level in the specification's order
\* Lowest < Equals < LessGreater < Sum < Product < Prefix < Call
SpecRank(t) ==
    CASE t.tag \in {"Eq", "NotEq"}       -> 2
      [] t.tag \in {"Gt", "Lt"}          -> 3
      [] t.tag \in {"Plus", "Minus"}     -> 4
      [] t.tag \in {"Asterisk", "Slash"} -> 5
      [] OTHER                           -> 1

BinaryOperatorTags ==
    {"Plus", "Minus", "Asterisk", "Slash", "Lt", "Gt", "Eq", "NotEq"}

\* one test of the loop of parse_expression(min): on a binary operator of
\* a level above min the window advances by one token and the operator's
\* right side is parsed next; on anything else the accumulated expression
\* is returned with the parser as it was
InfixLoopStep ==
    Running("parse_expression", "loop") =>
        IF /\ parser.peek_token.tag \in BinaryOperatorTags
           /\ SpecRank(parser.peek_token) > Top.precedence
        THEN /\ AdvancedByOne(parser, parser')
             /\ Len(stack') = Len(stack) + 1
             /\ stack'[Len(stack')].fn = "parse_infix_expression"
             /\ stack'[Len(stack')].left = Top.left
             /\ ret' = ret
        ELSE /\ parser' = parser
             /\ stack' = SubSeq(stack, 1, Len(stack) - 1)
             /\ ret' = <<Ok(Top.left)>>

\* the loop condition holds for a token that is no binary operator
FallbackTaken ==
    /\ Running("parse_expression", "loop")
    /\ LoopCondition(parser, Top.precedence)
    /\ parser.peek_token.tag \notin BinaryOperatorTags

\* C20: the loop of parse_expression(min) consumes the next token only
\* when it is a binary operator of a level strictly above min, and then
\* exactly that token; on any other next token it returns the accumulated
\* expression without advancing and without a diagnostic; the fallback
\* branch for a non-operator above min is never taken.
C20_InfixLoop ==
    /\ [][InfixLoopStep]_vars
    /\ [](~FallbackTaken)

\* in `x + 5 + ...` the right side of the first `+`, parsed at Sum, has
\* stopped before the second `+` and returned the 5
C20_Witness ==
    /\ Running("parse_infix_expression", "right")
    /\ ret = <<Ok(IntegerLiteral(<<5>>))>>
    /\ Top.operator = Tok("Plus")
    /\ parser.cur_token = make_int(<<5>>)
    /\ parser.peek_token = Tok("Plus")

----------------------------------------------------------------------------
(* The lookahead window.                                                   *)

\* the n-th token the lexer delivers, counting from 0: the tokens of the
\* stream in order, then end-of-input for ever
NthPulled(n) ==
    IF n < Len(Input) THEN Input[n + 1] ELSE EOF

\* the current token is the i-th token pulled, the next token the
\* (i+1)-th, and the lexer has been pulled i+2 times
WindowAt(i) ==
    /\ parser.cur_token = NthPulled(i)
    /\ parser.peek_token = NthPulled(i + 1)
    /\ parser.lexer.pulls = i + 2

WindowContiguous ==
    /\ parser.lexer.pulls >= 2
    /\ WindowAt(parser.lexer.pulls - 2)

\* the window never moves backwards and the stream is never replaced
WindowMovesForward ==
    /\ parser'.lexer.pulls >= parser.lexer.pulls
    /\ parser'.lexer.position >= parser.lexer.position
    /\ parser'.lexer.input = parser.lexer.input

\* C21: after construction and after every parser operation the current
\* token is the i-th token pulled from the lexer, the next token is the
\* (i+1)-th and the lexer has been pulled i+2 times, for some i; no token
\* is skipped, duplicated or reordered and i never decreases.
C21_WindowContiguous ==
    /\ [](WindowContiguous)
    /\ [][WindowMovesForward]_vars

\* the window has advanced three times and still shows tokens of the
\* stream, the two of them different
C21_Witness ==
    /\ parser.lexer.pulls = 5
    /\ Len(Input) >= 5
    /\ parser.cur_token = Input[4]
    /\ parser.peek_token = Input[5]
    /\ Input[4] /= Input[5] /\ Input[3] /= Input[4]

----------------------------------------------------------------------------
(* Blocks that end-of-input ends.                                          *)

BlockOfAll(b) == BlockStatement(Tok("LBrace"), b.asts)

\* C22: when end-of-input stands where the `}` of a block should be, the
\* block holds the statements parsed so far, no diagnostic is recorded and
\* the if-expression around it is the one statement of the program; this
\* for the block of the if and for the block of the else.
C22_BlockEndedByEOF ==
    Returned(1) =>
        \A c \in Conditions :
            /\ \A b \in UnterminatedBodies :
                 Input = UnterminatedIfTokens(c, b) =>
                   ParsedTo(IfExpr(c.ast, BlockOfAll(b), <<>>))
            /\ \A s1 \in BlockStmts, b \in UnterminatedBodies :
                 Input = UnterminatedElseTokens(c, s1, b) =>
                   ParsedTo(IfExpr(c.ast, BlockOf(s1), <<BlockOfAll(b)>>))

\* if (c) { s t, with no `}`: the program is the if-expression with both
\* statements in its block, and nothing was reported
C22_Witness ==
    /\ Returned(1)
    /\ Input \in UnterminatedIfs
    /\ Input[Len(Input)] /= Tok("RBrace")
    /\ parser.errors = <<>>
    /\ Len(CurrentProgram) = 1
    /\ CurrentProgram[1].expr.kind = "If"
    /\ Len(CurrentProgram[1].expr.consequence.statements) = 2
    /\ CurrentProgram[1].expr.alternative = <<>>

====
